---- MODULE Spec2Model ----
(***************************************************************************)
(* file-producer: the recursive removal (RemoveAllRecursive) of the FTP    *)
(* and SFTP producers, the recursive directory creation (MkdirAll) of the  *)
(* FTP producer and MakedirAll of the local producer, run against a small  *)
(* file system.                                                            *)
(*                                                                         *)
(* A path is a Go string, modelled as a sequence of one-character strings  *)
(* with "/" as the separator.  The remote server resolves a path to a      *)
(* node, the sequence of its non-empty components.  The program is a call  *)
(* stack of frames; every backend primitive (Stat, ReadDir, DeleteFile,    *)
(* DeleteDir, MakeDir, the SFTP client's Remove) is one atomic step, so    *)
(* another client of the same server can act between any two of them.     *)
(***************************************************************************)
EXTENDS Integers, Sequences, FiniteSets, TLC

VARIABLES
    backend,        \* "ftp" (producerFTP), "sftp" (sftpProducer) or "local" (localProducer)
    op,             \* the interface method called: "RemoveAll" or "MakedirAll"
    arg,            \* its path argument
    fs,             \* the server's tree: node -> "none" | "file" | "dir"
    unremovable,    \* files whose removal the server always refuses
    stack,          \* the call stack, innermost frame last
    ret,            \* the error returned by the frame that just returned
    results,        \* the errors returned by the finished top-level calls
    limits,         \* [faults, actor]: how many of each the behaviour may have
    faults,         \* opaque backend failures injected so far
    actor,          \* what the other client did: [n, mid, offSnap, outside, made]
    calls,          \* the first backend calls of the current top-level call
    muts,           \* successful mutations by the current top-level call
    mkdirLog,       \* paths handed to MakeDir by the current top-level call
    fsStart,        \* fs when the current top-level call began
    childErrs       \* top-level frame: the first error of its children, if any (n = 1)

vars == <<backend, op, arg, fs, unremovable, stack, ret, results, limits, faults,
          actor, calls, muts, mkdirLog, fsStart, childErrs>>

----------------------------------------------------------------------------
(* Bounds of the model. *)

MaxFaults == 1      \* opaque backend failures per behaviour
MaxActor == 1       \* deletions by the other client per behaviour
MaxCalls == 2       \* consecutive top-level calls with the same argument
CallCap == 3        \* so many backend calls of a top-level call are logged

----------------------------------------------------------------------------
(* Paths and the server's name space. *)

Sep == "/"

\* The nodes the server can hold: a, a/b, a/d, a/b/c and the outsider e.
Nodes == { <<"a">>, <<"a", "b">>, <<"a", "d">>, <<"a", "b", "c">>, <<"e">> }

Kinds == {"none", "file", "dir"}

P(n) ==  \* the canonical path string of a node: its names joined by "/"
    LET RECURSIVE J(_)
        J(k) == IF k = 0 THEN <<>>
                ELSE IF k = 1 THEN <<n[1]>>
                ELSE J(k - 1) \o <<Sep, n[k]>>
    IN  J(Len(n))

\* The server's path resolution: the non-empty components of the path.
RECURSIVE Resolve(_)
Resolve(path) ==
    IF path = <<>> THEN <<>>
    ELSE LET init == Resolve(SubSeq(path, 1, Len(path) - 1))
             c == path[Len(path)]
         IN  IF c = Sep THEN init
             ELSE IF Len(path) > 1 /\ path[Len(path) - 1] # Sep
                  THEN [init EXCEPT ![Len(init)] = init[Len(init)] \o c]
                  ELSE Append(init, c)

Parent(n) == SubSeq(n, 1, Len(n) - 1)

Exists(n) == n \in Nodes /\ fs[n] # "none"

IsDirNode(n) == n = <<>> \/ (n \in Nodes /\ fs[n] = "dir")

Children(n) == { m \in Nodes : Len(m) = Len(n) + 1 /\ Parent(m) = n /\ fs[m] # "none" }

Under(n) == { m \in Nodes : Len(m) >= Len(n) /\ SubSeq(m, 1, Len(n)) = n }

\* A tree: every entry's parent is a directory.
WellFormed(f) == \A n \in Nodes : f[n] # "none" /\ Len(n) > 1 => f[Parent(n)] = "dir"

Perms(S) ==  \* the orders in which a listing can return the names S
    { s \in [1..Cardinality(S) -> S] : \A i, j \in 1..Cardinality(S) : i # j => s[i] # s[j] }

----------------------------------------------------------------------------
(* Errors.  kind: what the server or client library reported; wrap: the    *)
(* sentinel RemoveAny wrapped it in with %w ("none" for an unwrapped       *)
(* error).                                                                 *)

Err(kind, path, wrap) == [kind |-> kind, path |-> path, wrap |-> wrap]

Nil == Err("nil", <<>>, "none")

\* Opaque failures: a plain error (connection lost), and for SFTP also a
\* *StatusError without the "not empty" text and a bare fs.ErrPermission.
FaultKinds == IF backend = "ftp" THEN {"Plain"} ELSE {"Plain", "Status", "Perm"}

FaultErrs(path) ==
    IF faults < limits.faults THEN { Err(k, path, "none") : k \in FaultKinds } ELSE {}

----------------------------------------------------------------------------
(* The backend primitives.  Each is the set of outcomes the server can     *)
(* produce in the current state: the error, the tree afterwards, whether   *)
(* the outcome is an injected opaque failure, and the value returned.      *)

Out(e, f, fault, isDir, names) ==
    [e |-> e, fs |-> f, fault |-> fault, isDir |-> isDir, names |-> names]

Failed(e) == Out(e, fs, FALSE, FALSE, <<>>)

Injected(path) == { Out(e, fs, TRUE, FALSE, <<>>) : e \in FaultErrs(path) }

\* A protocol failure the server reports for a request of the wrong type.
OpaqueKind == IF backend = "ftp" THEN "Plain" ELSE "Status"

\* The refusal to remove an unremovable file: permission denied, which the
\* SFTP client library reports as fs.ErrPermission.
RefusalKind == IF backend = "ftp" THEN "Plain" ELSE "Perm"

Stat(path) ==
    LET n == Resolve(path)
    IN  (IF Exists(n) THEN { Out(Nil, fs, FALSE, fs[n] = "dir", <<>>) }
         ELSE { Failed(Err("NotFound", path, "none")) })
        \cup Injected(path)

ReadDir(path) ==
    LET n == Resolve(path)
    IN  (IF ~Exists(n) THEN { Failed(Err("NotFound", path, "none")) }
         ELSE IF fs[n] # "dir" THEN { Failed(Err(OpaqueKind, path, "none")) }
         ELSE { Out(Nil, fs, FALSE, FALSE, s) :
                    s \in Perms({ m[Len(m)] : m \in Children(n) }) })
        \cup Injected(path)

DeleteFile(path) ==
    LET n == Resolve(path)
    IN  (IF ~Exists(n) THEN { Failed(Err("NotFound", path, "none")) }
         ELSE IF fs[n] # "file" THEN { Failed(Err(OpaqueKind, path, "none")) }
         ELSE IF n \in unremovable
              THEN { Failed(Err(RefusalKind, path, "none")) }
         ELSE { Out(Nil, [fs EXCEPT ![n] = "none"], FALSE, FALSE, <<>>) })
        \cup Injected(path)

DeleteDir(path) ==
    LET n == Resolve(path)
    IN  (IF ~Exists(n) THEN { Failed(Err("NotFound", path, "none")) }
         ELSE IF fs[n] # "dir" THEN { Failed(Err(OpaqueKind, path, "none")) }
         ELSE IF Children(n) # {} THEN { Failed(Err("NotEmpty", path, "none")) }
         ELSE { Out(Nil, [fs EXCEPT ![n] = "none"], FALSE, FALSE, <<>>) })
        \cup Injected(path)

MakeDir(path) ==
    LET n == Resolve(path)
    IN  (IF n \in Nodes /\ fs[n] = "none" /\ IsDirNode(Parent(n))
         THEN { Out(Nil, [fs EXCEPT ![n] = "dir"], FALSE, FALSE, <<>>) }
         ELSE { Failed(Err(OpaqueKind, path, "none")) })
        \cup Injected(path)

\* The SFTP client library's Remove: it removes a file or an empty directory.
ClientRemove(path) ==
    LET n == Resolve(path)
    IN  IF Exists(n) /\ fs[n] = "dir" THEN DeleteDir(path) ELSE DeleteFile(path)

----------------------------------------------------------------------------
(* Error tests of the code. *)

\* Variant: compares with the sentinel itself and so misses a wrapped one.
IsNotExist_Unwrapped(e) == e.wrap = "none" /\ e.kind = "NotFound"

\* errors.Is(err, fs.ErrNotExist): the %w sentinel, or the backend's own
\* not-found error; an error formatted into the text with %s is not found.
IsNotExist(e) ==
    \/ e.wrap = "ErrNotExist"
    \/ e.wrap = "none" /\ e.kind = "NotFound"

\* strings.Contains(err.Error(), "Directory is not empty"): the text RemoveAny
\* adds to every DeleteDir failure, or the server's own message.
ContainsNotEmpty(e) == e.wrap = "ErrPermission" \/ e.kind = "NotEmpty"

\* err.(*gosftp.StatusError): a status reply of the SFTP server.
IsStatusError(e) == e.wrap = "none" /\ e.kind \in {"NotEmpty", "Status"}

----------------------------------------------------------------------------
(* Frames and the call stack. *)

Frame(fn, path) ==
    [fn |-> fn, pc |-> "start", path |-> path, err |-> Nil, infos |-> <<>>,
     names |-> <<>>, inames |-> <<>>, entities |-> 0, numErr |-> 0, i |-> 1,
     isDir |-> FALSE]

Top == stack[Len(stack)]

At(fn, pc) == stack # <<>> /\ Top.fn = fn /\ Top.pc = pc

Pop == SubSeq(stack, 1, Len(stack) - 1)

\* What a step does to the stack: continue in the frame, call, or return.
Go(f) == [stack |-> [stack EXCEPT ![Len(stack)] = f], ret |-> Nil, returns |-> FALSE]

Call(f, callee) ==
    [stack |-> Append([stack EXCEPT ![Len(stack)] = f], callee), ret |-> Nil,
     returns |-> FALSE]

Return(e) == [stack |-> Pop, ret |-> e, returns |-> TRUE]

RemoveAllFn == IF backend = "ftp" THEN "FtpRemoveAllRecursive" ELSE "SftpRemoveAllRecursive"

TopFn ==
    IF op = "RemoveAll" THEN RemoveAllFn
    ELSE IF backend = "local" THEN "LocalMakedirAll"
    ELSE "MkdirAll"

Logged(c, prim, path) ==
    IF Len(c) < CallCap THEN Append(c, [prim |-> prim, path |-> path]) ELSE c

NoCalls == <<>>

NoChildErrs == [first |-> Nil, n |-> 0]

\* A step of the program: t is what it does to the stack.
Commit(t) ==
    /\ stack' = t.stack
    /\ ret' = t.ret
    /\ results' = IF t.returns /\ Len(stack) = 1 THEN Append(results, t.ret) ELSE results
    /\ childErrs' =
          IF t.returns /\ Len(stack) = 2 /\ Top.fn = RemoveAllFn /\ t.ret # Nil
          THEN [first |-> IF childErrs.n = 0 THEN t.ret ELSE childErrs.first, n |-> 1]
          ELSE childErrs
    /\ UNCHANGED <<backend, op, arg, unremovable, limits, actor, fsStart>>

\* A step that issues the backend primitive prim on path with outcome r.
Effect(prim, path, r) ==
    /\ fs' = r.fs
    /\ faults' = IF r.fault THEN faults + 1 ELSE faults
    /\ calls' = Logged(calls, prim, path)
    /\ muts' = (muts \/ r.fs # fs)

\* A step that issues no backend call.
Local == UNCHANGED <<fs, faults, calls, muts, mkdirLog>>

----------------------------------------------------------------------------
(* producerFTP.RemoveAny: stat the path, then DeleteDir or DeleteFile.     *)

\* Variant: the stat failure is wrapped in fs.ErrInvalid.
RemoveAnyStatError_Invalid(path, e) == Err(e.kind, path, "ErrInvalid")

RemoveAnyStatError(path, e) == Err(e.kind, path, "ErrNotExist")

RemoveAnyDeleteError(path, e, isDir) ==
    Err(e.kind, path, IF isDir THEN "ErrPermission" ELSE "ErrInvalid")

RemoveAny_Stat ==
    /\ At("RemoveAny", "start")
    /\ \E r \in Stat(Top.path) :
          /\ Effect("stat", Top.path, r)
          /\ Commit(IF r.e # Nil
                    THEN Return(RemoveAnyStatError(Top.path, r.e))
                    ELSE Go([Top EXCEPT !.pc = "delete", !.isDir = r.isDir]))
    /\ UNCHANGED mkdirLog

RemoveAny_Delete ==
    /\ At("RemoveAny", "delete")
    /\ \E r \in (IF Top.isDir THEN DeleteDir(Top.path) ELSE DeleteFile(Top.path)) :
          /\ Effect(IF Top.isDir THEN "rmdir" ELSE "rmfile", Top.path, r)
          /\ Commit(Return(IF r.e = Nil THEN Nil
                           ELSE RemoveAnyDeleteError(Top.path, r.e, Top.isDir)))
    /\ UNCHANGED mkdirLog

----------------------------------------------------------------------------
(* The children-draining loop shared by both RemoveAllRecursive: the       *)
(* bookkeeping of one pass over a listing snapshot.                        *)

\* Variant: the name alone, without the directory it was listed in.
ChildPath_NameOnly(path, name) == <<name>>

\* path + "/" + name
ChildPath(path, name) == path \o <<Sep>> \o <<name>>

\* A successful ReadDir at the top of the DIR loop: new infos, err, entities
\* and an empty names slice.
Listed(f, infos) ==
    [f EXCEPT !.infos = infos, !.err = Nil, !.entities = Len(infos), !.names = <<>>]

\* The head of the inner loop: numErr := 0 and the closure, which appends the
\* names of infos to the outer names and yields the result as the inner names.
BeginPass(f) ==
    [f EXCEPT !.pc = "iter", !.numErr = 0, !.i = 1,
              !.names = f.names \o f.infos, !.inames = f.names \o f.infos]

\* Variant: the range loop is left at the first child that fails.
AfterChild_FailFast(f, err1) ==
    [f EXCEPT !.pc = "iter",
              !.err = IF f.err = Nil THEN err1 ELSE f.err,
              !.numErr = IF err1 # Nil THEN f.numErr + 1 ELSE f.numErr,
              !.i = IF err1 # Nil THEN Len(f.inames) + 1 ELSE f.i + 1]

\* The body of `for _, name := range names` after the recursive call.
AfterChild(f, err1) ==
    [f EXCEPT !.pc = "iter",
              !.err = IF f.err = Nil THEN err1 ELSE f.err,
              !.numErr = IF err1 # Nil THEN f.numErr + 1 ELSE f.numErr,
              !.i = f.i + 1]

\* `err1 == nil || errors.Is(err1, fs.ErrNotExist)` after removing path itself.
Removed(err1) == err1 = Nil \/ IsNotExist(err1)

----------------------------------------------------------------------------
(* producerFTP.RemoveAllRecursive                                          *)

\* Variant: "Directory is not empty" is not recognised, every error is fatal.
FtpFastPath_NotEmptyFatal(err) ==
    IF err = Nil THEN "nil"
    ELSE IF IsNotExist(err) THEN "nil"
    ELSE "err"

\* Variant: the not-exist test is missing.
FtpFastPath_NoNotExist(err) ==
    IF err = Nil THEN "nil"
    ELSE IF ~ContainsNotEmpty(err) THEN "err"
    ELSE "drain"

\* The switch after the fast path: "nil", "err" (return err) or "drain".
FtpFastPath(err) ==
    IF err = Nil THEN "nil"
    ELSE IF IsNotExist(err) THEN "nil"
    ELSE IF ~ContainsNotEmpty(err) THEN "err"
    ELSE "drain"

\* After the range loop of a pass: "relist" (break to the DIR loop),
\* "remove" (the RemoveAny inside the inner loop) or "again" (next pass).
FtpAfterPass(f) ==
    IF f.numErr # f.entities THEN "relist"
    ELSE IF Len(f.inames) = 0 THEN "relist"
    ELSE IF Len(f.inames) < f.entities THEN "remove"
    ELSE "again"

\* What the last statements return once path itself could not be removed.
FtpFinalError(f, err1) == err1

\* Variant: the test for the empty path is missing.
FtpRemoveAllRecursive_StartUnguarded ==
    /\ At("FtpRemoveAllRecursive", "start")
    /\ Commit(Call([Top EXCEPT !.pc = "fast"], Frame("RemoveAny", Top.path)))
    /\ Local

FtpRemoveAllRecursive_Start ==
    /\ At("FtpRemoveAllRecursive", "start")
    /\ Commit(IF Top.path = <<>> THEN Return(Nil)
              ELSE Call([Top EXCEPT !.pc = "fast"], Frame("RemoveAny", Top.path)))
    /\ Local

FtpRemoveAllRecursive_Fast ==
    /\ At("FtpRemoveAllRecursive", "fast")
    /\ Commit(CASE FtpFastPath(ret) = "nil" -> Return(Nil)
                [] FtpFastPath(ret) = "err" -> Return(ret)
                [] OTHER -> Go([Top EXCEPT !.pc = "list"]))
    /\ Local

FtpRemoveAllRecursive_ReadDir ==
    /\ At("FtpRemoveAllRecursive", "list")
    /\ \E r \in ReadDir(Top.path) :
          /\ Effect("list", Top.path, r)
          /\ Commit(IF r.e # Nil
                    THEN Return(IF IsNotExist(r.e) THEN Nil ELSE r.e)
                    ELSE IF Len(r.names) = 0
                    THEN Call([Listed(Top, r.names) EXCEPT !.pc = "final"],
                              Frame("RemoveAny", Top.path))
                    ELSE Go(BeginPass(Listed(Top, r.names))))
    /\ UNCHANGED mkdirLog

FtpRemoveAllRecursive_Child ==
    /\ At("FtpRemoveAllRecursive", "iter")
    /\ Top.i <= Len(Top.inames)
    /\ Commit(Call([Top EXCEPT !.pc = "child"],
                   Frame("FtpRemoveAllRecursive", ChildPath(Top.path, Top.inames[Top.i]))))
    /\ Local

FtpRemoveAllRecursive_ChildDone ==
    /\ At("FtpRemoveAllRecursive", "child")
    /\ Commit(Go(AfterChild(Top, ret)))
    /\ Local

FtpRemoveAllRecursive_AfterPass ==
    /\ At("FtpRemoveAllRecursive", "iter")
    /\ Top.i > Len(Top.inames)
    /\ Commit(CASE FtpAfterPass(Top) = "relist" -> Go([Top EXCEPT !.pc = "list"])
                [] FtpAfterPass(Top) = "remove" ->
                      Call([Top EXCEPT !.pc = "inner"], Frame("RemoveAny", Top.path))
                [] OTHER -> Go(BeginPass(Top)))
    /\ Local

\* After RemoveAny(path): inside the inner loop ("inner") or after the DIR
\* loop ("final").
FtpRemoveAllRecursive_Removed ==
    /\ stack # <<>> /\ Top.fn = "FtpRemoveAllRecursive" /\ Top.pc \in {"inner", "final"}
    /\ Commit(IF Removed(ret) THEN Return(Nil)
              ELSE IF Top.pc = "final" THEN Return(FtpFinalError(Top, ret))
              ELSE IF Top.err # Nil THEN Return(Top.err)
              ELSE Go(BeginPass(Top)))
    /\ Local

----------------------------------------------------------------------------
(* sftpProducer.Remove: the client's Remove, and RemoveDirectory when the  *)
(* error is exactly fs.ErrPermission.                                      *)

IsErrPermission(e) == e.wrap = "none" /\ e.kind = "Perm"

Remove_Client ==
    /\ At("Remove", "start")
    /\ \E r \in ClientRemove(Top.path) :
          /\ Effect("remove", Top.path, r)
          /\ Commit(IF r.e # Nil /\ IsErrPermission(r.e)
                    THEN Go([Top EXCEPT !.pc = "rmdir"])
                    ELSE Return(r.e))
    /\ UNCHANGED mkdirLog

Remove_Directory ==
    /\ At("Remove", "rmdir")
    /\ \E r \in DeleteDir(Top.path) :
          /\ Effect("rmdir", Top.path, r)
          /\ Commit(Return(r.e))
    /\ UNCHANGED mkdirLog

----------------------------------------------------------------------------
(* sftpProducer.RemoveAllRecursive                                         *)

SftpFastPath(err) ==
    IF err = Nil THEN "nil"
    ELSE IF IsNotExist(err) THEN "nil"
    ELSE IF IsStatusError(err) /\ ~ContainsNotEmpty(err) THEN "err"
    ELSE "drain"

\* After the range loop of a pass: "again" (next pass) while every attempt
\* failed; otherwise the inner loop is left and the test on the outer names
\* chooses "remove" (DeleteDir inside the DIR loop) or "relist".
SftpAfterPass(f) ==
    IF f.numErr = f.entities THEN "again"
    ELSE IF Len(f.names) < f.entities THEN "remove"
    ELSE "relist"

SftpFinalError(f, err1) == err1

SftpRemoveAllRecursive_Start ==
    /\ At("SftpRemoveAllRecursive", "start")
    /\ Commit(IF Top.path = <<>> THEN Return(Nil)
              ELSE Call([Top EXCEPT !.pc = "fast"], Frame("Remove", Top.path)))
    /\ Local

SftpRemoveAllRecursive_Fast ==
    /\ At("SftpRemoveAllRecursive", "fast")
    /\ Commit(CASE SftpFastPath(ret) = "nil" -> Return(Nil)
                [] SftpFastPath(ret) = "err" -> Return(ret)
                [] OTHER -> Go([Top EXCEPT !.pc = "list"]))
    /\ Local

SftpRemoveAllRecursive_ReadDir ==
    /\ At("SftpRemoveAllRecursive", "list")
    /\ \E r \in ReadDir(Top.path) :
          /\ Effect("list", Top.path, r)
          /\ Commit(IF r.e # Nil
                    THEN Return(IF IsNotExist(r.e) THEN Nil ELSE r.e)
                    ELSE IF Len(r.names) = 0
                    THEN Go([Listed(Top, r.names) EXCEPT !.pc = "final"])
                    ELSE Go(BeginPass(Listed(Top, r.names))))
    /\ UNCHANGED mkdirLog

SftpRemoveAllRecursive_Child ==
    /\ At("SftpRemoveAllRecursive", "iter")
    /\ Top.i <= Len(Top.inames)
    /\ Commit(Call([Top EXCEPT !.pc = "child"],
                   Frame("SftpRemoveAllRecursive", ChildPath(Top.path, Top.inames[Top.i]))))
    /\ Local

SftpRemoveAllRecursive_ChildDone ==
    /\ At("SftpRemoveAllRecursive", "child")
    /\ Commit(Go(AfterChild(Top, ret)))
    /\ Local

SftpRemoveAllRecursive_AfterPass ==
    /\ At("SftpRemoveAllRecursive", "iter")
    /\ Top.i > Len(Top.inames)
    /\ Commit(CASE SftpAfterPass(Top) = "relist" -> Go([Top EXCEPT !.pc = "list"])
                [] SftpAfterPass(Top) = "remove" -> Go([Top EXCEPT !.pc = "inner"])
                [] OTHER -> Go(BeginPass(Top)))
    /\ Local

\* DeleteDir(path): inside the DIR loop ("inner") or after it ("final").
SftpRemoveAllRecursive_DeleteDir ==
    /\ stack # <<>> /\ Top.fn = "SftpRemoveAllRecursive" /\ Top.pc \in {"inner", "final"}
    /\ \E r \in DeleteDir(Top.path) :
          /\ Effect("rmdir", Top.path, r)
          /\ Commit(IF Removed(r.e) THEN Return(Nil)
                    ELSE IF Top.pc = "final" THEN Return(SftpFinalError(Top, r.e))
                    ELSE IF Top.err # Nil THEN Return(Top.err)
                    ELSE Go([Top EXCEPT !.pc = "list"]))
    /\ UNCHANGED mkdirLog

----------------------------------------------------------------------------
(* producerFTP.MkdirAll                                                    *)

\* `for i > 0 && path[i-1] == '/' { i-- }` from i (a Go index: path[i-1] is
\* the i-th character).
RECURSIVE SkipTrailing(_, _)
SkipTrailing(path, i) ==
    IF i > 0 /\ path[i] = Sep THEN SkipTrailing(path, i - 1) ELSE i

\* `for j > 0 && path[j-1] != '/' { j-- }` from j.
RECURSIVE ScanBack(_, _)
ScanBack(path, j) ==
    IF j > 0 /\ path[j] # Sep THEN ScanBack(path, j - 1) ELSE j

ParentEnd(path) == ScanBack(path, SkipTrailing(path, Len(path)))

\* `j > 1`: there is a parent to create first.
HasParent(path) == ParentEnd(path) > 1

\* Variant: path[0 : j], which keeps the separator.
ParentPath_KeepsSeparator(path) == SubSeq(path, 1, ParentEnd(path))

\* path[0 : j-1]
ParentPath(path) == SubSeq(path, 1, ParentEnd(path) - 1)

\* Variant: an existing entry of any type counts as success.
NotADirectory_Ignored(path) == Nil

\* &os.PathError{Op: "mkdir", Path: path, Err: syscall.ENOTDIR}
NotADirectory(path) == Err("ENOTDIR", path, "none")

\* Variant: no fast path for a path that is already a directory.
MkdirAll_Stat_NoFastPath ==
    /\ At("MkdirAll", "start")
    /\ \E r \in Stat(Top.path) :
          /\ Effect("stat", Top.path, r)
          /\ Commit(IF r.e = Nil /\ ~r.isDir
                    THEN Return(NotADirectory(Top.path))
                    ELSE IF HasParent(Top.path)
                    THEN Call([Top EXCEPT !.pc = "parent"],
                              Frame("MkdirAll", ParentPath(Top.path)))
                    ELSE Go([Top EXCEPT !.pc = "mkdir"]))
    /\ UNCHANGED mkdirLog

MkdirAll_Stat ==
    /\ At("MkdirAll", "start")
    /\ \E r \in Stat(Top.path) :
          /\ Effect("stat", Top.path, r)
          /\ Commit(IF r.e = Nil
                    THEN Return(IF r.isDir THEN Nil ELSE NotADirectory(Top.path))
                    ELSE IF HasParent(Top.path)
                    THEN Call([Top EXCEPT !.pc = "parent"],
                              Frame("MkdirAll", ParentPath(Top.path)))
                    ELSE Go([Top EXCEPT !.pc = "mkdir"]))
    /\ UNCHANGED mkdirLog

\* Variant: the error of creating the parent is dropped.
MkdirAll_Parent_IgnoresError ==
    /\ At("MkdirAll", "parent")
    /\ Commit(Go([Top EXCEPT !.pc = "mkdir"]))
    /\ Local

MkdirAll_Parent ==
    /\ At("MkdirAll", "parent")
    /\ Commit(IF ret # Nil THEN Return(ret) ELSE Go([Top EXCEPT !.pc = "mkdir"]))
    /\ Local

MkdirAll_MakeDir ==
    /\ At("MkdirAll", "mkdir")
    /\ \E r \in MakeDir(Top.path) :
          /\ Effect("mkdir", Top.path, r)
          /\ Commit(IF r.e = Nil THEN Return(Nil)
                    ELSE Go([Top EXCEPT !.pc = "restat", !.err = r.e]))
    /\ mkdirLog' = Append(mkdirLog, Top.path)

\* Variant: a failed second Stat returns its own error.
MkdirAll_Restat_StatError ==
    /\ At("MkdirAll", "restat")
    /\ \E r \in Stat(Top.path) :
          /\ Effect("stat", Top.path, r)
          /\ Commit(IF r.e = Nil /\ r.isDir THEN Return(Nil)
                    ELSE IF r.e # Nil THEN Return(r.e)
                    ELSE Return(Top.err))
    /\ UNCHANGED mkdirLog

MkdirAll_Restat ==
    /\ At("MkdirAll", "restat")
    /\ \E r \in Stat(Top.path) :
          /\ Effect("stat", Top.path, r)
          /\ Commit(IF r.e = Nil /\ r.isDir THEN Return(Nil) ELSE Return(Top.err))
    /\ UNCHANGED mkdirLog

----------------------------------------------------------------------------
(* localProducer.MakedirAll: os.Stat, and os.MkdirAll when the error is    *)
(* fs.ErrNotExist.  The local file system fails only where it must.        *)

\* The entries above n, nearest last.
Ancestors(n) == { SubSeq(n, 1, k) : k \in 1..(Len(n) - 1) }

\* A component of the path that must be a directory is a file: an entry above
\* the last one, or the last one when the path ends in a separator.
ThroughFile(path) ==
    LET n == Resolve(path)
    IN  \/ \E m \in Ancestors(n) : m \in Nodes /\ fs[m] = "file"
        \/ path # <<>> /\ path[Len(path)] = Sep /\ n \in Nodes /\ fs[n] = "file"

\* os.Stat: ENOTDIR when the path leads through a file, ENOENT when the entry
\* is missing.
OsStat(path) ==
    LET n == Resolve(path)
    IN  IF ThroughFile(path) THEN { Failed(Err("ENOTDIR", path, "none")) }
        ELSE IF Exists(n) THEN { Out(Nil, fs, FALSE, fs[n] = "dir", <<>>) }
        ELSE { Failed(Err("NotFound", path, "none")) }

\* os.MkdirAll: nil on a directory, ENOTDIR on or through a file, otherwise
\* the missing directories of the path are created.
OsMkdirAll(path) ==
    LET n == Resolve(path)
        chain == Ancestors(n) \cup {n}
    IN  IF \E m \in chain : m \in Nodes /\ fs[m] = "file"
        THEN { Failed(Err("ENOTDIR", path, "none")) }
        ELSE { Out(Nil, [m \in Nodes |-> IF m \in chain THEN "dir" ELSE fs[m]],
                   FALSE, FALSE, <<>>) }

LocalMakedirAll_Stat ==
    /\ At("LocalMakedirAll", "start")
    /\ \E r \in OsStat(Top.path) :
          /\ Effect("stat", Top.path, r)
          /\ Commit(IF IsNotExist(r.e) THEN Go([Top EXCEPT !.pc = "mkdirall"])
                    ELSE Return(Nil))
    /\ UNCHANGED mkdirLog

LocalMakedirAll_MkdirAll ==
    /\ At("LocalMakedirAll", "mkdirall")
    /\ \E r \in OsMkdirAll(Top.path) :
          /\ Effect("mkdirall", Top.path, r)
          /\ Commit(Return(r.e))
    /\ UNCHANGED mkdirLog

----------------------------------------------------------------------------
(* The other client of the server and the driver of the top-level calls.   *)

\* The other client acts between the stat and the delete of a RemoveAny (or
\* between the two requests of sftpProducer.Remove).
MidRemove ==
    /\ stack # <<>>
    /\ \/ Top.fn = "RemoveAny" /\ Top.pc = "delete"
       \/ Top.fn = "Remove" /\ Top.pc = "rmdir"

\* n is a child of the current listing snapshot that is still to be tried.
InSnapshot(n) ==
    /\ stack # <<>> /\ Top.fn = RemoveAllFn /\ Top.pc = "iter"
    /\ \E k \in Top.i..Len(Top.inames) : Resolve(ChildPath(Top.path, Top.inames[k])) = n

\* The entries whose deletion the call can observe: those at or beneath its
\* argument and the directories above it.
Related == { m \in Nodes : m \in Under(Resolve(arg)) \/ Resolve(arg) \in Under(m) }

Removable(n) ==
    /\ Exists(n) /\ n \notin unremovable
    /\ fs[n] = "dir" => Children(n) = {}

ActorDelete ==
    /\ stack # <<>>
    /\ actor.n < limits.actor
    /\ \E n \in Related :
          /\ Removable(n)
          /\ fs' = [fs EXCEPT ![n] = "none"]
          /\ actor' = [actor EXCEPT !.n = actor.n + 1, !.mid = actor.mid \/ MidRemove,
                                     !.offSnap = actor.offSnap \/ ~InSnapshot(n),
                                     !.outside = actor.outside \/ n \notin Under(Resolve(arg))]
    /\ UNCHANGED <<backend, op, arg, unremovable, stack, ret, results, limits, faults,
                   calls, muts, mkdirLog, fsStart, childErrs>>

\* The other client creates a file or a directory on the path of a running
\* MkdirAll.
ActorCreate ==
    /\ stack # <<>> /\ op = "MakedirAll"
    /\ actor.n < limits.actor
    /\ \E n \in Related, k \in {"file", "dir"} :
          /\ fs[n] = "none" /\ IsDirNode(Parent(n))
          /\ fs' = [fs EXCEPT ![n] = k]
          /\ actor' = [actor EXCEPT !.n = actor.n + 1, !.made = k]
    /\ UNCHANGED <<backend, op, arg, unremovable, stack, ret, results, limits, faults,
                   calls, muts, mkdirLog, fsStart, childErrs>>

CallAgain ==
    /\ stack = <<>>
    /\ Len(results) < MaxCalls
    /\ stack' = <<Frame(TopFn, arg)>>
    /\ ret' = Nil
    /\ calls' = NoCalls
    /\ muts' = FALSE
    /\ mkdirLog' = <<>>
    /\ fsStart' = fs
    /\ childErrs' = NoChildErrs
    /\ UNCHANGED <<backend, op, arg, fs, unremovable, results, limits, faults, actor>>

----------------------------------------------------------------------------
(* The inputs. *)

RemoveArgs == { <<>>, P(<<"a">>), P(<<"a", "b">>) }

MkdirArgs == { P(<<"a", "b", "c">>), P(<<"a", "d">>) \o <<Sep>>, <<Sep>> \o P(<<"e">>) }

Inputs ==
    { [backend |-> "ftp", op |-> "RemoveAll", arg |-> a] : a \in RemoveArgs }
    \cup { [backend |-> "sftp", op |-> "RemoveAll", arg |-> a] : a \in RemoveArgs }
    \cup { [backend |-> "ftp", op |-> "MakedirAll", arg |-> a] : a \in MkdirArgs }

\* The outsider e is a file; a/d is a file or absent.
Trees ==
    { f \in [Nodes -> Kinds] :
        WellFormed(f) /\ f[<<"e">>] = "file" /\ f[<<"a", "d">>] # "dir" }

NoActor == [n |-> 0, mid |-> FALSE, offSnap |-> FALSE, outside |-> FALSE, made |-> "none"]

InitWith(inputs, maxFaults, maxActor) ==
    /\ \E in \in inputs : backend = in.backend /\ op = in.op /\ arg = in.arg
    /\ fs \in Trees
    /\ unremovable \in { S \in SUBSET { n \in Nodes : fs[n] = "file" } : Cardinality(S) <= 1 }
    /\ stack = <<Frame(TopFn, arg)>>
    /\ ret = Nil
    /\ results = <<>>
    /\ limits = [faults |-> maxFaults, actor |-> maxActor]
    /\ faults = 0
    /\ actor = NoActor
    /\ calls = NoCalls
    /\ muts = FALSE
    /\ mkdirLog = <<>>
    /\ fsStart = fs
    /\ childErrs = NoChildErrs

Init == InitWith(Inputs, MaxFaults, MaxActor)

RemoveProgram ==
    \/ RemoveAny_Stat
    \/ RemoveAny_Delete
    \/ FtpRemoveAllRecursive_Start
    \/ FtpRemoveAllRecursive_Fast
    \/ FtpRemoveAllRecursive_ReadDir
    \/ FtpRemoveAllRecursive_Child
    \/ FtpRemoveAllRecursive_ChildDone
    \/ FtpRemoveAllRecursive_AfterPass
    \/ FtpRemoveAllRecursive_Removed
    \/ Remove_Client
    \/ Remove_Directory
    \/ SftpRemoveAllRecursive_Start
    \/ SftpRemoveAllRecursive_Fast
    \/ SftpRemoveAllRecursive_ReadDir
    \/ SftpRemoveAllRecursive_Child
    \/ SftpRemoveAllRecursive_ChildDone
    \/ SftpRemoveAllRecursive_AfterPass
    \/ SftpRemoveAllRecursive_DeleteDir

MkdirProgram ==
    \/ MkdirAll_Stat
    \/ MkdirAll_Parent
    \/ MkdirAll_MakeDir
    \/ MkdirAll_Restat

Next == RemoveProgram \/ MkdirProgram \/ CallAgain \/ ActorDelete \/ ActorCreate

Spec == Init /\ [][Next]_vars

\* RemoveAll alone on a server that fails only where it must and has no other
\* client.  The program is sequential code that keeps running: a step that
\* is possible is eventually taken.
InitAlone == InitWith({ in \in Inputs : in.op = "RemoveAll" }, 0, 0)

NextAlone == RemoveProgram \/ CallAgain

SpecAlone == InitAlone /\ [][NextAlone]_vars /\ WF_vars(NextAlone)

\* localProducer.MakedirAll on a local file system nobody else touches.
LocalInputs == { [backend |-> "local", op |-> "MakedirAll", arg |-> a] : a \in MkdirArgs }

InitLocal == InitWith(LocalInputs, 0, 0)

LocalProgram ==
    \/ LocalMakedirAll_Stat
    \/ LocalMakedirAll_MkdirAll

NextLocal == LocalProgram \/ CallAgain

SpecLocal == InitLocal /\ [][NextLocal]_vars

----------------------------------------------------------------------------
(* Vocabulary of the properties. *)

\* A top-level call has returned and the next has not begun.
Returned == stack = <<>>

Result == results[Len(results)]

\* The first top-level call is running or has just returned.
FirstCall == Len(results) = 0 \/ (Len(results) = 1 /\ Returned)

Root == Resolve(arg)

\* Nothing is left of the tree at the argument.
TreeGone == \A m \in Under(Root) : fs[m] = "none"

\* The server failed only where it must, and no other client acted.
Undisturbed == faults = 0 /\ actor.n = 0

RemovingDir(f) == op = "RemoveAll" /\ arg # <<>> /\ Root \in Nodes /\ f[Root] = "dir"

----------------------------------------------------------------------------
(* C1: on a tree at a directory whose every entry is removable, with no    *)
(* backend failure and no other client, RemoveAllRecursive(root)           *)
(* terminates, returns nil, and leaves neither root nor anything beneath   *)
(* it.                                                                     *)

C1_Case == RemovingDir(fsStart) /\ unremovable = {} /\ Undisturbed

C1_RemovesAll == Returned /\ C1_Case => Result = Nil /\ TreeGone

\* C1: in that case every return is nil with the tree gone, and the call
\* does return.
C1_RemoveAllTerminatesClean ==
    /\ [](C1_RemovesAll)
    /\ (C1_Case /\ ~Returned) ~> Returned

\* A directory with a grandchild was removed by the first call, nil returned.
C1_Witness ==
    /\ Returned /\ Len(results) = 1 /\ C1_Case /\ Result = Nil /\ TreeGone
    /\ fsStart[<<"a", "b", "c">>] # "none" /\ fsStart[<<"a", "d">>] # "none"
    /\ arg = P(<<"a">>)

----------------------------------------------------------------------------
(* C2: with exactly one unremovable leaf file under root, and nothing else *)
(* failing, RemoveAllRecursive(root) removes every other entry, returns a  *)
(* non-nil error, and leaves only that leaf and its ancestors up to root.  *)

\* The leaf and the directories between root and the leaf.
Chain(u) == { m \in Under(Root) : Len(m) <= Len(u) /\ SubSeq(u, 1, Len(m)) = m }

C2_Case ==
    /\ RemovingDir(fsStart) /\ Undisturbed
    /\ \E u \in Under(Root) : unremovable = {u} /\ u # Root

C2_OnlyChainLeft ==
    \E u \in unremovable : \A m \in Under(Root) : fs[m] # "none" <=> m \in Chain(u)

\* C2: from the start of such a call, it eventually returns a non-nil error
\* with only the leaf's ancestry chain left.
C2_UnremovableLeafReturnsError ==
    (C2_Case /\ Len(results) = 0)
        ~> (Returned /\ Len(results) = 1 /\ Result # Nil /\ C2_OnlyChainLeft)

----------------------------------------------------------------------------
(* C3: when RemoveAllRecursive(path) with a non-empty path returns nil,    *)
(* path does not exist at that moment, however the backend primitives      *)
(* failed (no client of the server ever creates an entry).                 *)

C3_NilMeansGone ==
    Returned /\ backend = "ftp" /\ op = "RemoveAll" /\ arg # <<>> /\ Result = Nil
        => ~Exists(Root)

----------------------------------------------------------------------------
(* C4: when RemoveAllRecursive(path) on a directory returns a non-nil      *)
(* error and some recursive child removal returned an error during the     *)
(* call, the error returned is the first such child error, not the error   *)
(* of the final RemoveAny(path).  (Stated for the calls whose error is not *)
(* a failed listing: an error of RemoveAny carries its %w sentinel.)       *)

C4_FirstChildErrorReturned ==
    /\ Returned /\ backend = "ftp" /\ RemovingDir(fsStart)
    /\ Result # Nil /\ Result.wrap # "none" /\ childErrs.n > 0
    => Result = childErrs.first

----------------------------------------------------------------------------
(* C5: when another client deletes path or an entry beneath it at any      *)
(* point of RemoveAllRecursive(path), and nothing fails for another reason *)
(* than an entry being gone, the call returns nil.                         *)

C5_Case ==
    /\ backend = "ftp" /\ op = "RemoveAll" /\ FirstCall
    /\ actor.n > 0 /\ ~actor.outside
    /\ faults = 0 /\ unremovable = {}

\* C5: a call raced only by deletions at or beneath its path returns nil.
C5_ConcurrentDeleteReturnsNil == Returned /\ C5_Case => Result = Nil

----------------------------------------------------------------------------
(* C6: when another client removes children of a listing snapshot before   *)
(* RemoveAllRecursive recurses into them, and every remaining entry is     *)
(* removable, no recursive call reports an error and the overall call      *)
(* returns nil.                                                            *)

C6_Case ==
    /\ op = "RemoveAll" /\ FirstCall
    /\ actor.n > 0 /\ ~actor.offSnap
    /\ faults = 0 /\ unremovable = {}

\* C6: a call raced only by deletions of snapshot children still to be tried
\* sees no child error and returns nil.
C6_SnapshotRaceReturnsNil ==
    /\ C6_Case => childErrs.n = 0
    /\ Returned /\ C6_Case => Result = Nil

\* The other client took the last child of the snapshot of a/b.
C6_Witness ==
    /\ Returned /\ C6_Case /\ Result = Nil
    /\ fsStart[<<"a", "b", "c">>] # "none" /\ arg = P(<<"a">>) /\ TreeGone

----------------------------------------------------------------------------
(* C7: for a path that does not exist, RemoveAllRecursive(path) returns    *)
(* nil after the initial stat or remove attempt alone: no listing, no      *)
(* second removal request, no mutation.                                    *)

C7_Case ==
    /\ op = "RemoveAll" /\ arg # <<>> /\ fsStart[Root] = "none"
    /\ (backend = "ftp" \/ faults = 0)

C7_InitialAttempt == [prim |-> IF backend = "ftp" THEN "stat" ELSE "remove", path |-> arg]

C7_OnlyInitialAttempt == ~muts /\ (calls = <<>> \/ calls = <<C7_InitialAttempt>>)

\* C7: a call on an absent path issues at most its initial stat (FTP) or
\* remove (SFTP) and returns nil.
C7_AbsentPathIsNoOp ==
    /\ C7_Case => C7_OnlyInitialAttempt
    /\ Returned /\ C7_Case => Result = Nil

C7_Witness ==
    /\ Returned /\ Len(results) = 1 /\ C7_Case /\ Result = Nil
    /\ backend = "ftp" /\ Len(calls) = 1 /\ arg = P(<<"a", "b">>) /\ fs[<<"a">>] = "dir"

----------------------------------------------------------------------------
(* C8: RemoveAllRecursive("") returns nil and issues no backend call at    *)
(* all, whatever the backend holds.                                        *)

C8_EmptyPathIsNoOp ==
    op = "RemoveAll" /\ arg = <<>>
        => /\ calls = NoCalls /\ ~muts /\ mkdirLog = <<>>
           /\ Returned => Result = Nil

C8_Witness ==
    /\ op = "RemoveAll" /\ arg = <<>> /\ Returned /\ Len(results) = MaxCalls
    /\ fs[<<"a", "b", "c">>] = "file"

----------------------------------------------------------------------------
(* C9: after a RemoveAllRecursive(root) that returned nil with the whole   *)
(* tree removed, a second RemoveAllRecursive(root) returns nil and makes   *)
(* no successful mutation.                                                 *)

C9_Case ==
    /\ op = "RemoveAll" /\ arg # <<>> /\ Len(results) >= 2
    /\ results[Len(results) - 1] = Nil
    /\ \A m \in Under(Root) : fsStart[m] = "none"
    /\ (backend = "ftp" \/ faults = 0)

\* C9: the call after a clean removal mutates nothing and returns nil.
C9_SecondCallIsNoOp ==
    /\ C9_Case => ~muts /\ \A m \in Nodes : fs[m] # "none" => fs[m] = fsStart[m]
    /\ Returned /\ C9_Case => Result = Nil

\* The first call removed a tree with a grandchild; the second has returned.
C9_Witness ==
    /\ Returned /\ C9_Case /\ Result = Nil /\ calls = <<[prim |-> "stat", path |-> arg]>>
    /\ muts = FALSE /\ arg = P(<<"a">>) /\ backend = "ftp"

----------------------------------------------------------------------------
(* C10: where none of a, a/b, a/b/c exists and MakeDir succeeds whenever   *)
(* the parent exists, MkdirAll("a/b/c") calls MakeDir exactly three times, *)
(* for a, a/b and a/b/c in that order, and returns nil.                    *)

ABC == P(<<"a", "b", "c">>)

C10_Case ==
    /\ op = "MakedirAll" /\ arg = ABC
    /\ fsStart[<<"a">>] = "none" /\ Undisturbed

\* C10: the MakeDir calls are a prefix of a, a/b, a/b/c throughout, and all
\* three with a nil result on return.
C10_ParentsFirst ==
    /\ C10_Case =>
          \E k \in 0..3 : mkdirLog = SubSeq(<<P(<<"a">>), P(<<"a", "b">>), ABC>>, 1, k)
    /\ Returned /\ C10_Case =>
          /\ Result = Nil
          /\ mkdirLog = <<P(<<"a">>), P(<<"a", "b">>), ABC>>
          /\ \A n \in Chain(Root) : fs[n] = "dir"

C10_Witness ==
    /\ Returned /\ C10_Case /\ Result = Nil /\ Len(mkdirLog) = 3
    /\ fs[<<"a", "b", "c">>] = "dir"

----------------------------------------------------------------------------
(* C11: when path is a plain file, the backend answers truthfully and no   *)
(* other client acts, producerFTP.MkdirAll(path) returns the "not a        *)
(* directory" error naming path and issues no MakeDir and no other         *)
(* mutating call.                                                          *)

MkdirOnFtp == backend = "ftp" /\ op = "MakedirAll"

C11_Case == MkdirOnFtp /\ fsStart[Root] = "file" /\ Undisturbed

\* C11: MkdirAll on a plain file never reaches MakeDir, changes nothing, and
\* returns ENOTDIR for exactly the path it was given.
C11_FileIsNotADirectory ==
    /\ C11_Case => mkdirLog = <<>> /\ ~muts /\ fs = fsStart
    /\ Returned /\ C11_Case => Result = Err("ENOTDIR", arg, "none")

\* MkdirAll("a/d/") on the file a/d has returned.
C11_Witness ==
    /\ Returned /\ Len(results) = 1 /\ C11_Case
    /\ arg = P(<<"a", "d">>) \o <<Sep>> /\ Result.kind = "ENOTDIR" /\ Result.path = arg
    /\ calls = <<[prim |-> "stat", path |-> arg]>>

----------------------------------------------------------------------------
(* C12: localProducer.MakedirAll(path) on a regular file returns a non-nil *)
(* error, and it returns nil only when path is a directory on return.      *)

C12_Case == backend = "local" /\ op = "MakedirAll" /\ Returned /\ Undisturbed

\* C12: on return, a path that was a regular file gave an error, and nil
\* means the path is a directory.
C12_LocalFileIsAnError ==
    C12_Case =>
        /\ fsStart[Root] = "file" => Result # Nil
        /\ Result = Nil => fs[Root] = "dir"

----------------------------------------------------------------------------
(* Vocabulary of the step properties of RemoveAllRecursive. *)

InRemoveAll(pc) == stack # <<>> /\ Top.fn = RemoveAllFn /\ Top.pc = pc

\* The program takes a step (the other client's steps leave the stack alone).
ProgramStep == stack' # stack

\* The range loop over the names of a pass has ended in the innermost frame.
PassDone == InRemoveAll("iter") /\ Top.i > Len(Top.inames)

\* The innermost frame goes on to ReadDir(path).
Relists ==
    /\ Len(stack') = Len(stack)
    /\ stack'[Len(stack)].path = Top.path
    /\ stack'[Len(stack)].pc = "list"

----------------------------------------------------------------------------
(* C13: when the fast-path removal of path fails for a reason the backend  *)
(* reports as neither "no such entry" nor "directory not empty",           *)
(* RemoveAllRecursive returns that error at once, without listing path;    *)
(* for FTP and SFTP and every kind of error.                               *)

\* Not a not-exist condition (errors.Is, which RemoveAny's wrapping of a Stat
\* failure satisfies), and not the backend's answer for a directory that
\* has entries.
C13_Fatal(e) == e # Nil /\ ~IsNotExist(e) /\ e.kind # "NotEmpty"

C13_Step ==
    InRemoveAll("fast") /\ C13_Fatal(ret) /\ ProgramStep
        => stack' = Pop /\ ret' = ret

\* C13: the step after a fast path that failed fatally is the return of
\* that error.
C13_FatalFastPathReturns == [][C13_Step]_vars

----------------------------------------------------------------------------
(* C14: after a pass in which every recursive child removal failed, the    *)
(* next action on path is a fresh ReadDir(path), and no pass attempts more *)
(* children than the snapshot has (numErr never exceeds entities).         *)

C14_Bounded == \A k \in 1..Len(stack) : stack[k].numErr <= stack[k].entities

C14_AllFailed == PassDone /\ Top.numErr = Len(Top.inames)

\* C14: every frame keeps numErr within entities, and the step after an
\* all-failed pass goes to ReadDir(path).
C14_RelistAfterAllFailed ==
    [][C14_Bounded /\ (C14_AllFailed /\ ProgramStep => Relists)]_vars

----------------------------------------------------------------------------
(* C15: after any pass in which at least one recursive child removal       *)
(* returned nil, retry passes included, the inner loop is left and         *)
(* ReadDir(path) is called before another child removal is attempted.      *)

C15_SomeRemoved == PassDone /\ Top.numErr < Len(Top.inames)

\* C15: the step after a pass with a nil child removal goes to ReadDir(path).
C15_RelistAfterProgress == [][C15_SomeRemoved /\ ProgramStep => Relists]_vars

----------------------------------------------------------------------------
(* C16: within a pass RemoveAllRecursive calls itself on every name of the *)
(* snapshot, in listing order, one call at a time, whether or not the      *)
(* removal of an earlier sibling failed.                                   *)

\* The k-th name a pass attempts: the snapshot in listing order, repeated.
C16_Name(f, k) == f.infos[((k - 1) % f.entities) + 1]

\* The frames in a pass: the names are the snapshot's, and a frame waiting
\* for a child has exactly that child's call above it.
C16_InOrder ==
    \A k \in 1..Len(stack) :
        stack[k].fn = RemoveAllFn /\ stack[k].pc \in {"iter", "child"} =>
            /\ stack[k].entities = Len(stack[k].infos)
            /\ Len(stack[k].inames) >= stack[k].entities
            /\ \A j \in 1..Len(stack[k].inames) : stack[k].inames[j] = C16_Name(stack[k], j)
            /\ stack[k].pc = "child" /\ k < Len(stack) =>
                  /\ stack[k + 1].fn \in {RemoveAllFn, "RemoveAny", "Remove"}
                  /\ stack[k + 1].fn = RemoveAllFn =>
                        stack[k + 1].path = ChildPath(stack[k].path, C16_Name(stack[k], stack[k].i))

C16_Step ==
    /\ InRemoveAll("iter") /\ ~PassDone /\ ProgramStep =>
          /\ Len(stack') = Len(stack) + 1
          /\ stack'[Len(stack)] = [Top EXCEPT !.pc = "child"]
          /\ stack'[Len(stack) + 1] = Frame(RemoveAllFn, ChildPath(Top.path, C16_Name(Top, Top.i)))
    /\ InRemoveAll("child") /\ ProgramStep =>
          /\ Len(stack') = Len(stack)
          /\ stack'[Len(stack)].pc = "iter"
          /\ stack'[Len(stack)].i = Top.i + 1

\* C16: a pass calls the children one by one in listing order, and goes on
\* to the next name after every call, failed or not.
C16_EveryChildAttempted == [][C16_InOrder /\ C16_Step]_vars

\* The first child of the pass over a failed, and the call for the second has
\* begun.
C16_Witness ==
    /\ Len(stack) = 2 /\ FirstCall /\ arg = P(<<"a">>)
    /\ stack[1].pc = "child" /\ stack[1].entities = 2
    /\ stack[1].i = 2 /\ stack[1].numErr = 1 /\ stack[1].err # Nil
    /\ stack[2] = Frame(RemoveAllFn, ChildPath(arg, stack[1].infos[2]))

----------------------------------------------------------------------------
(* C17: when MakeDir(path) fails in MkdirAll, the Stat that follows        *)
(* decides: path is a directory (another client made it after the first    *)
(* Stat) and MkdirAll returns nil; the Stat fails or path is not a         *)
(* directory, and MkdirAll returns the error of MakeDir, not of the Stat.  *)

\* MkdirAll is about to Stat path again: MakeDir(path) was its last request
\* and failed with Top.err.
C17_AfterFailedMakeDir ==
    At("MkdirAll", "restat") =>
        Top.err # Nil /\ mkdirLog # <<>> /\ mkdirLog[Len(mkdirLog)] = Top.path

\* The second Stat sees a directory: the step injects no failure and the
\* path is a directory.
C17_SeesDirectory == faults' = faults /\ IsDirNode(Resolve(Top.path))

C17_Step ==
    At("MkdirAll", "restat") /\ ProgramStep =>
        /\ stack' = Pop
        /\ ret' = IF C17_SeesDirectory THEN Nil ELSE Top.err

\* C17: the step after a failed MakeDir returns nil exactly when the Stat
\* shows a directory, and the error of MakeDir otherwise.
C17_RestatDecides == [][C17_AfterFailedMakeDir /\ C17_Step]_vars

\* The other client made a/d after the first Stat: MakeDir("a/d/") failed,
\* nothing was created by the call, and it returned nil.
C17_Witness ==
    /\ Returned /\ Len(results) = 1 /\ MkdirOnFtp /\ faults = 0
    /\ arg = P(<<"a", "d">>) \o <<Sep>> /\ actor.made = "dir"
    /\ mkdirLog = <<arg>> /\ ~muts /\ Result = Nil /\ fs[<<"a", "d">>] = "dir"

----------------------------------------------------------------------------
(* C18: on a path that is a directory MkdirAll returns nil after a single  *)
(* Stat, without MakeDir and without a call for the parent; so a MkdirAll  *)
(* right after a successful one changes nothing.                           *)

C18_Case == MkdirOnFtp /\ fsStart[Root] = "dir" /\ Undisturbed

\* The running or just finished call follows one that returned nil.
C18_AfterNil ==
    /\ MkdirOnFtp /\ Undisturbed
    /\ IF Returned THEN Len(results) >= 2 /\ results[Len(results) - 1] = Nil
       ELSE Len(results) >= 1 /\ results[Len(results)] = Nil

C18_OnlyStat ==
    /\ mkdirLog = <<>> /\ ~muts /\ fs = fsStart /\ Len(stack) <= 1
    /\ calls = <<>> \/ calls = <<[prim |-> "stat", path |-> arg]>>
    /\ Returned => Result = Nil

\* C18: a call on an existing directory, and any call that follows a
\* successful one, is a single Stat that returns nil.
C18_ExistingDirectoryIsNoOp ==
    /\ C18_Case => C18_OnlyStat
    /\ C18_AfterNil => C18_OnlyStat

\* The second MkdirAll("a/b/c") has returned after the first one made a.
C18_Witness ==
    /\ Returned /\ C18_AfterNil /\ Len(results) = 2 /\ arg = ABC
    /\ fs[<<"a", "b", "c">>] = "dir" /\ fs[<<"a", "d">>] = "none"
    /\ calls = <<[prim |-> "stat", path |-> arg]>>

----------------------------------------------------------------------------
(* C19: every frame of a RemoveAllRecursive(path) works on path itself or  *)
(* on path + "/" + name for a name its caller listed, at any depth, and    *)
(* the call changes no entry outside the tree at path.                     *)

\* Each frame's path is the argument, its caller's path (the removal of the
\* caller's own path) or the caller's path + "/" + a name the caller listed.
C19_Paths ==
    \A k \in 1..Len(stack) :
        IF k = 1 THEN stack[k].path = arg
        ELSE \/ stack[k].path = stack[k - 1].path
             \/ \E j \in 1..Len(stack[k - 1].infos) :
                    stack[k].path = stack[k - 1].path \o <<Sep, stack[k - 1].infos[j]>>

\* A logged backend call is on the path of the frame that issues it.
C19_Target == Len(calls') > Len(calls) => calls'[Len(calls')].path = Top.path

\* A step of the call (not of the other client) changes nothing outside.
C19_Frame == actor' = actor => \A n \in Nodes \ Under(Root) : fs'[n] = fs[n]

\* C19: every path the call works on is built from its argument and listed
\* names, and its steps leave the entries outside the tree at the argument
\* as they are.
C19_StaysInSubtree ==
    [][op = "RemoveAll" => C19_Paths /\ C19_Target /\ C19_Frame]_vars

\* RemoveAllRecursive("a/b") removed a/b and a/b/c; a, a/d and e are intact.
C19_Witness ==
    /\ Returned /\ Len(results) = 1 /\ op = "RemoveAll" /\ arg = P(<<"a", "b">>)
    /\ fsStart[<<"a", "b", "c">>] # "none" /\ fsStart[<<"a", "d">>] = "file"
    /\ actor.n = 0 /\ Result = Nil /\ TreeGone
    /\ fs[<<"a">>] = "dir" /\ fs[<<"a", "d">>] = "file" /\ fs[<<"e">>] = "file"

----------------------------------------------------------------------------
(* C20: when path is absent and an entry above it is a plain file, with a  *)
(* truthful backend and no other client, producerFTP.MkdirAll(path)        *)
(* returns a non-nil error and calls MakeDir at no level.                  *)

C20_Case ==
    /\ MkdirOnFtp /\ Undisturbed /\ fsStart[Root] = "none"
    /\ \E m \in Ancestors(Root) : fsStart[m] = "file"

\* C20: no MakeDir is issued and nothing changes; the result is the "not a
\* directory" error for the file above the path.
C20_FileAboveStopsMkdirAll ==
    /\ C20_Case => mkdirLog = <<>> /\ ~muts /\ fs = fsStart
    /\ Returned /\ C20_Case =>
          /\ Result # Nil /\ Result.kind = "ENOTDIR"
          /\ Resolve(Result.path) \in Ancestors(Root) /\ fs[Resolve(Result.path)] = "file"

\* MkdirAll("a/b/c") with the file a/b has returned.
C20_Witness ==
    /\ Returned /\ Len(results) = 1 /\ C20_Case /\ arg = ABC
    /\ fs[<<"a", "b">>] = "file" /\ Result.path = P(<<"a", "b">>)
    /\ Len(calls) = 2

====
